---- MODULE Spec2Model ----
(***************************************************************************)
(* Model of monai/apps/utils.py: check_hash, download_url, extractall and  *)
(* download_and_extract, over one destination path `filepath`, its staging *)
(* file `filepath + ".part"` and one output directory.                     *)
(*                                                                         *)
(* Strings are sequences of one-character strings, file contents are       *)
(* sequences of small naturals ("bytes").  An optional value (None or a    *)
(* string) is a record [some, str]; a path's file is a record [exists,     *)
(* data].  An exception is a record [kind, line] naming the raise site.    *)
(***************************************************************************)
EXTENDS Naturals, Integers, Sequences, FiniteSets, TLC

VARIABLES
    filepath,    \* the destination path of this run (argument `filepath`)
    has_gdown,   \* module flag set by optional_import("gdown")
    remote,      \* the bytes the server holds for every url
    fs,          \* [dest, part, dir]: filepath, filepath + ".part", dirname exists
    outdir,      \* names of the entries that exist under output_dir
    pc,          \* "idle" | "probe" | "loop" | "finalize" | "extract" | "done"
    op,          \* the entry point that was called
    req,         \* [url, hash_val, hash_type]: the arguments of the call
    result,      \* how the call ended: [kind, line]
    first_byte,  \* local of the range branch
    file_size,   \* local of the range branch
    net,         \* network accesses of the call, in order
    start,       \* [dest, part, outdir]: the filesystem when the call started
    prev,        \* arguments of the previous call, if it was a download_url that returned
    ranOK,       \* this call repeats the previous download_url call, which returned
    unpacked     \* decompression routine extractall used in this call, or "none"

vars == <<filepath, has_gdown, remote, fs, outdir, pc, op, req, result,
          first_byte, file_size, net, start, prev, ranOK, unpacked>>

----------------------------------------------------------------------------
(* Bounds *)

\* largest remote content length, in bytes
MaxTotal == 7

\* largest number of members of an archive
MaxMembers == 2

----------------------------------------------------------------------------
(* Strings *)

Str_md5 == <<"m", "d", "5">>
Str_MD5 == <<"M", "D", "5">>
Str_sha1 == <<"s", "h", "a", "1">>
Str_crc32 == <<"c", "r", "c", "3", "2">>

UpperCh == <<"A", "B", "C", "D", "E", "F", "M">>
LowerCh == <<"a", "b", "c", "d", "e", "f", "m">>

\* str.lower() on one character
LowerChar(c) ==
    IF \E i \in 1..Len(UpperCh) : UpperCh[i] = c
    THEN LowerCh[CHOOSE i \in 1..Len(UpperCh) : UpperCh[i] = c]
    ELSE c

\* str.lower()
Lower(s) == [i \in 1..Len(s) |-> LowerChar(s[i])]

UpperChar(c) ==
    IF \E i \in 1..Len(LowerCh) : LowerCh[i] = c
    THEN UpperCh[CHOOSE i \in 1..Len(LowerCh) : LowerCh[i] = c]
    ELSE c

\* str.upper(), used only to build expected values written in capitals
Upper(s) == [i \in 1..Len(s) |-> UpperChar(s[i])]

\* str.startswith(prefix)
StartsWith(s, prefix) ==
    /\ Len(prefix) <= Len(s)
    /\ SubSeq(s, 1, Len(prefix)) = prefix

\* str.endswith(suffix)
EndsWith(s, suffix) ==
    /\ Len(suffix) <= Len(s)
    /\ SubSeq(s, Len(s) - Len(suffix) + 1, Len(s)) = suffix

\* os.path.basename(p): what follows the last "/"
Basename(p) ==
    LET slashes == {i \in 1..Len(p) : p[i] = "/"}
        last == IF slashes = {} THEN 0
                ELSE CHOOSE i \in slashes : \A j \in slashes : j <= i
    IN  SubSeq(p, last + 1, Len(p))

\* s.split(".")[0]: what precedes the first "."
SplitDot0(s) ==
    LET dots == {i \in 1..Len(s) : s[i] = "."}
        first == IF dots = {} THEN Len(s) + 1
                 ELSE CHOOSE i \in dots : \A j \in dots : i <= j
    IN  SubSeq(s, 1, first - 1)

----------------------------------------------------------------------------
(* Optional values, files, exceptions *)

None == [some |-> FALSE, str |-> <<>>]
Some(s) == [some |-> TRUE, str |-> s]

\* Python truthiness of an Optional[str]: None and "" are falsy
Truthy(v) == v.some /\ v.str # <<>>

NoFile == [exists |-> FALSE, data |-> <<>>]
File(d) == [exists |-> TRUE, data |-> d]

Ok == [kind |-> "ok", line |-> 0]
NoResult == [kind |-> "none", line |-> 0]
Raise(k, l) == [kind |-> k, line |-> l]

----------------------------------------------------------------------------
(* hashlib: a stand-in digest.  The content is folded into a number, which *)
(* hexdigest() renders as lower-case hexadecimal digits of fixed width;    *)
(* md5 and sha1 differ in the fold and in the width.                       *)

HexCh == <<"0", "1", "2", "3", "4", "5", "6", "7",
           "8", "9", "a", "b", "c", "d", "e", "f">>

RECURSIVE Fold(_, _, _)
Fold(data, mult, acc) ==
    IF data = <<>> THEN acc
    ELSE Fold(Tail(data), mult, (acc * mult + Head(data) + 1) % 65536)

RECURSIVE Hex(_, _)
Hex(n, width) ==
    IF width = 0 THEN <<>>
    ELSE Append(Hex(n \div 16, width - 1), HexCh[(n % 16) + 1])

\* hashlib.md5() / hashlib.sha1(), update(...) over the chunks, hexdigest()
HexDigest(alg, data) ==
    IF alg = Str_md5 THEN Hex(Fold(data, 5, 1), 4)
    ELSE Hex(Fold(data, 7, 2), 5)

----------------------------------------------------------------------------
(* check_hash *)

\* check_hash comparing hash_type without lower()
check_hash_exact_case(file, val, hash_type) ==
    IF ~val.some THEN "True"
    ELSE IF hash_type # Str_md5 /\ hash_type # Str_sha1
         THEN "NotImplementedError"
    ELSE IF ~file.exists THEN "False"
    ELSE IF val.str # HexDigest(hash_type, file.data) THEN "False"
    ELSE "True"

\* check_hash opening the file before it looks at val
check_hash_reads_first(file, val, hash_type) ==
    IF ~file.exists THEN "False"
    ELSE IF ~val.some THEN "True"
    ELSE IF Lower(hash_type) # Str_md5 /\ Lower(hash_type) # Str_sha1
         THEN "NotImplementedError"
    ELSE IF val.str # HexDigest(Lower(hash_type), file.data) THEN "False"
    ELSE "True"

\* check_hash(filepath, val, hash_type): "True", "False", or the exception raised
check_hash(file, val, hash_type) ==
    IF ~val.some THEN "True"
    ELSE IF Lower(hash_type) # Str_md5 /\ Lower(hash_type) # Str_sha1
         THEN "NotImplementedError"
    ELSE IF ~file.exists THEN "False"
    ELSE IF val.str # HexDigest(Lower(hash_type), file.data) THEN "False"
    ELSE "True"

\* the exception a caller raises at `line` when check_hash does not return True
HashOutcome(c, line) ==
    IF c = "True" THEN Ok
    ELSE IF c = "False" THEN Raise("HashMismatch", line)
    ELSE Raise("UnsupportedAlgorithm", 45)

----------------------------------------------------------------------------
(* The inputs *)

Prefix_gdrive == <<"https://drive.google.com">>
Prefix_msd == <<"https://msd-for-monai.s3-us-west-2.amazonaws.com">>

Url_gdrive == <<"https://drive.google.com", "/uc?id=1">>
Url_msd == <<"https://msd-for-monai.s3-us-west-2.amazonaws.com", "/Task09.tar">>
Url_other == <<"https://example.org", "/data.zip">>
Urls == {Url_gdrive, Url_msd, Url_other}

\* the hash_type arguments of the calls
HashTypes == {Str_MD5, Str_sha1, Str_crc32}

Path_zip == <<"d", "/", "d", "a", "t", "a", ".", "z", "i", "p">>
Path_targz == <<"d", "/", "d", "a", "t", "a", ".", "t", "a", "r", ".", "g", "z">>
Path_tar == <<"d", "/", "d", "a", "t", "a", ".", "t", "a", "r">>
Path_txt == <<"d", "/", "d", "a", "t", "a", ".", "t", "x", "t">>
Path_nodotzip == <<"d", "/", "d", "a", "t", "a", "z", "i", "p">>
Path_nodottar == <<"d", "/", "d", "a", "t", "a", "t", "a", "r">>
FilePaths == {Path_zip, Path_targz, Path_tar, Path_txt, Path_nodotzip, Path_nodottar}

Suffix_zip == <<"z", "i", "p">>
Suffix_tar == <<"t", "a", "r">>
Suffix_targz == <<"t", "a", "r", ".", "g", "z">>

Name_data == <<"d", "a", "t", "a">>
Name_readme == <<"r", "e", "a", "d", "m", "e">>

\* first byte of a zip archive, of a tar archive, of a file that is neither
MagicZip == 0
MagicTar == 1
MagicNone == 2

\* a file of n bytes: a magic byte, then one byte per archive member
Content(magic, n) == [i \in 1..n |-> IF i = 1 THEN magic ELSE 2 + (i % 2)]

Magics == {MagicZip, MagicTar, MagicNone}

\* an extraction that writes no member
MembersNone(data) == {}

\* the names of the top-level entries an archive holds
Members(data) ==
    {IF data[i] = 3 THEN Name_data ELSE Name_readme : i \in 2..Len(data)}

\* a file left at the destination before the first call
Stale == <<MagicNone>>

\* the hash_val arguments of the calls, for a server holding `data`
HashVals(data) ==
    {None, Some(<<>>), Some(HexDigest(Str_md5, data)), Some(HexDigest(Str_sha1, data))}

----------------------------------------------------------------------------
(* The network and the provider *)

\* block_size = 1024 * 1024, scaled down
block_size == 2

Probe == [kind |-> "probe", first |-> 0, last |-> 0]
Range(f, l) == [kind |-> "range", first |-> f, last |-> l]
Retrieve == [kind |-> "urlretrieve", first |-> 0, last |-> 0]
Provider == [kind |-> "gdown", first |-> 0, last |-> 0]

\* what a transfer cut short leaves behind: all but the last byte
Truncated(data) == SubSeq(data, 1, Len(data) - 1)

\* urlretrieve(url, filepath): completes, or raises with nothing or a short file written
RetrieveOutcomes ==
    {[ok |-> TRUE, file |-> File(remote)], [ok |-> FALSE, file |-> NoFile]}
    \cup (IF remote = <<>> THEN {}
          ELSE {[ok |-> FALSE, file |-> File(Truncated(remote))]})

\* gdown.download(url, filepath): the file it leaves at filepath, if any
GdownOutcomes ==
    {File(remote), NoFile}
    \cup (IF remote = <<>> THEN {} ELSE {File(Truncated(remote))})

\* the body of the response to "Range: bytes=f-l" (both ends inclusive)
RangeBody(f, l) ==
    SubSeq(remote, f + 1, IF l + 1 < Len(remote) THEN l + 1 ELSE Len(remote))

----------------------------------------------------------------------------
(* Calls *)

NoReq == [url |-> <<>>, hash_val |-> None, hash_type |-> <<>>]
NoStart == [dest |-> NoFile, part |-> NoFile, outdir |-> {}]

\* no call is running: no arguments, no locals, no outcome
Idle ==
    /\ pc = "idle"
    /\ op = "none"
    /\ req = NoReq
    /\ result = NoResult
    /\ first_byte = 0
    /\ file_size = -1
    /\ net = <<>>
    /\ start = NoStart
    /\ ranOK = FALSE
    /\ unpacked = "none"

\* the download entry point alone, on one path, over every remote length
Init ==
    /\ filepath = Path_zip
    /\ has_gdown \in BOOLEAN
    /\ remote \in {Content(MagicZip, n) : n \in 0..MaxTotal}
    /\ \E d \in {NoFile, File(Stale)}, dir \in BOOLEAN :
          /\ d.exists => dir
          /\ fs = [dest |-> d, part |-> NoFile, dir |-> dir]
    /\ outdir = {}
    /\ prev = NoReq
    /\ Idle

\* the extraction entry points, over every path and every archive
InitExtract ==
    /\ filepath \in FilePaths
    /\ has_gdown = TRUE
    /\ remote \in {Content(m, n) : m \in Magics, n \in 1..(MaxMembers + 1)}
    /\ \E dir \in BOOLEAN : fs = [dest |-> NoFile, part |-> NoFile, dir |-> dir]
    /\ outdir \in SUBSET {SplitDot0(Basename(filepath))}
    /\ prev = NoReq
    /\ Idle

----------------------------------------------------------------------------
(* download_url *)

\* download_url without its last check
FinalCheckSkipped(f, hash_val, hash_type) == Ok

\* line 142: the check every branch falls through to
FinalCheck(f, hash_val, hash_type) ==
    HashOutcome(check_hash(f.dest, hash_val, hash_type), 143)

\* download_url not looking for the file after gdown.download returned
DirectOutcomesProviderTrusted(url, hash_val, hash_type) ==
    IF fs.dest.exists
    THEN {[fs |-> fs, net |-> <<>>,
           res |-> HashOutcome(check_hash(fs.dest, hash_val, hash_type), 85)]}
    ELSE IF StartsWith(url, Prefix_gdrive)
    THEN IF ~has_gdown
         THEN {[fs |-> fs, net |-> <<>>, res |-> Raise("CapabilityUnavailable", 93)]}
         ELSE {LET f == [fs EXCEPT !.dir = TRUE, !.dest = d]
               IN  [fs |-> f, net |-> <<Provider>>,
                    res |-> FinalCheck(f, hash_val, hash_type)]
               : d \in GdownOutcomes}
    ELSE {LET f == [fs EXCEPT !.dir = TRUE, !.dest = o.file]
          IN  [fs |-> f, net |-> <<Retrieve>>,
               res |-> IF ~o.ok THEN Raise("DownloadFailed", 140)
                       ELSE FinalCheck(f, hash_val, hash_type)]
          : o \in RetrieveOutcomes}

\* download_url fetching again over an existing file that fails the hash
DirectOutcomesRedownload(url, hash_val, hash_type) ==
    IF fs.dest.exists /\ check_hash(fs.dest, hash_val, hash_type) # "False"
    THEN {[fs |-> fs, net |-> <<>>,
           res |-> HashOutcome(check_hash(fs.dest, hash_val, hash_type), 85)]}
    ELSE IF StartsWith(url, Prefix_gdrive)
    THEN IF ~has_gdown
         THEN {[fs |-> fs, net |-> <<>>, res |-> Raise("CapabilityUnavailable", 93)]}
         ELSE {LET f == [fs EXCEPT !.dir = TRUE, !.dest = d]
               IN  [fs |-> f, net |-> <<Provider>>,
                    res |-> IF ~d.exists THEN Raise("DownloadFailed", 97)
                            ELSE FinalCheck(f, hash_val, hash_type)]
               : d \in GdownOutcomes}
    ELSE {LET f == [fs EXCEPT !.dir = TRUE, !.dest = o.file]
          IN  [fs |-> f, net |-> <<Retrieve>>,
               res |-> IF ~o.ok THEN Raise("DownloadFailed", 140)
                       ELSE FinalCheck(f, hash_val, hash_type)]
          : o \in RetrieveOutcomes}

\* lines 83-99 and 129-146: what one call that does not take the range branch
\* does, as the set of its possible [fs, net, res]
DirectOutcomes(url, hash_val, hash_type) ==
    IF fs.dest.exists
    THEN {[fs |-> fs, net |-> <<>>,
           res |-> HashOutcome(check_hash(fs.dest, hash_val, hash_type), 85)]}
    ELSE IF StartsWith(url, Prefix_gdrive)
    THEN IF ~has_gdown
         THEN {[fs |-> fs, net |-> <<>>, res |-> Raise("CapabilityUnavailable", 93)]}
         ELSE {LET f == [fs EXCEPT !.dir = TRUE, !.dest = d]
               IN  [fs |-> f, net |-> <<Provider>>,
                    res |-> IF ~d.exists THEN Raise("DownloadFailed", 97)
                            ELSE FinalCheck(f, hash_val, hash_type)]
               : d \in GdownOutcomes}
    ELSE {LET f == [fs EXCEPT !.dir = TRUE, !.dest = o.file]
          IN  [fs |-> f, net |-> <<Retrieve>>,
               res |-> IF ~o.ok THEN Raise("DownloadFailed", 140)
                       ELSE FinalCheck(f, hash_val, hash_type)]
          : o \in RetrieveOutcomes}

\* the range branch taken without looking for an existing file first
TakesRangeAnyway(url) ==
    /\ ~StartsWith(url, Prefix_gdrive)
    /\ StartsWith(url, Prefix_msd)

\* line 100: the url takes the range branch
TakesRange(url) ==
    /\ ~fs.dest.exists
    /\ ~StartsWith(url, Prefix_gdrive)
    /\ StartsWith(url, Prefix_msd)

\* download_and_extract going on to extractall whatever download_url did
AfterDownloadAlways(entry, res) ==
    IF entry = "download_and_extract" THEN "extract" ELSE "done"

\* where control goes when download_url ends with `res`
AfterDownload(entry, res) ==
    IF entry = "download_and_extract" /\ res = Ok THEN "extract" ELSE "done"

\* the resume offset taken one byte short of the staging file's length
ResumeOffsetShort == IF fs.part.exists /\ fs.part.data # <<>> THEN Len(fs.part.data) - 1 ELSE 0

\* line 103: os.path.getsize(tmp_file_path) if os.path.exists(tmp_file_path) else 0
ResumeOffset == IF fs.part.exists THEN Len(fs.part.data) ELSE 0

\* entering download_url, directly or from download_and_extract (line 203)
Enter(entry, url, hash_val, hash_type) ==
    LET r == [url |-> url, hash_val |-> hash_val, hash_type |-> hash_type]
    IN  /\ pc = "idle"
        /\ op' = entry
        /\ req' = r
        /\ start' = [dest |-> fs.dest, part |-> fs.part, outdir |-> outdir]
        /\ ranOK' = (entry = "download_url" /\ prev = r)
        /\ IF TakesRange(url)
           THEN /\ first_byte' = ResumeOffset
                /\ pc' = "probe"
                /\ UNCHANGED <<fs, net, result, file_size>>
           ELSE \E o \in DirectOutcomes(url, hash_val, hash_type) :
                /\ fs' = o.fs
                /\ net' = o.net
                /\ result' = o.res
                /\ pc' = AfterDownload(entry, o.res)
                /\ UNCHANGED <<first_byte, file_size>>
        /\ UNCHANGED <<filepath, has_gdown, remote, outdir, prev, unpacked>>

download_url ==
    \E url \in Urls, hash_val \in HashVals(remote), hash_type \in HashTypes :
        Enter("download_url", url, hash_val, hash_type)

\* line 107: urlopen(url).info().get("Content-Length", -1)
ProbeSize ==
    /\ pc = "probe"
    /\ net' = Append(net, Probe)
    /\ \/ file_size' = Len(remote) /\ pc' = "loop"     \* header present
       \/ file_size' = -1 /\ pc' = "loop"              \* header missing
       \/ file_size' = -1 /\ pc' = "finalize"          \* IOError, line 120
    /\ UNCHANGED <<filepath, has_gdown, remote, fs, outdir, op, req, result,
                   first_byte, start, prev, ranOK, unpacked>>

\* line 111
last_byte ==
    IF first_byte + block_size < file_size THEN first_byte + block_size
    ELSE file_size - 1

\* the loop condition with <= for <
LoopGuardInclusive == first_byte <= file_size

\* line 110: the loop condition
LoopGuard == first_byte < file_size

\* the while loop opening the staging file with "wb" for "ab"
ChunkLoopTruncating ==
    /\ pc = "loop"
    /\ IF LoopGuard
       THEN /\ net' = Append(net, Range(first_byte, last_byte))
            /\ \/ /\ fs.dir                            \* open(tmp_file_path, "wb")
                  /\ fs' = [fs EXCEPT !.part =
                              File(RangeBody(first_byte, last_byte))]
                  /\ first_byte' = last_byte + 1
                  /\ pc' = "loop"
               \/ /\ ~fs.dir                           \* open raises IOError
                  /\ pc' = "finalize"
                  /\ UNCHANGED <<fs, first_byte>>
               \/ /\ pc' = "finalize"                  \* urlopen / read raises IOError
                  /\ UNCHANGED <<fs, first_byte>>
       ELSE /\ pc' = "finalize"
            /\ UNCHANGED <<fs, first_byte, net>>
    /\ UNCHANGED <<filepath, has_gdown, remote, outdir, op, req, result,
                   file_size, start, prev, ranOK, unpacked>>

\* lines 110-119: one pass of the while loop, or leaving it
ChunkLoop ==
    /\ pc = "loop"
    /\ IF LoopGuard
       THEN /\ net' = Append(net, Range(first_byte, last_byte))
            /\ \/ /\ fs.dir                            \* open(tmp_file_path, "ab")
                  /\ fs' = [fs EXCEPT !.part =
                              File(fs.part.data \o RangeBody(first_byte, last_byte))]
                  /\ first_byte' = last_byte + 1
                  /\ pc' = "loop"
               \/ /\ ~fs.dir                           \* open raises IOError
                  /\ pc' = "finalize"
                  /\ UNCHANGED <<fs, first_byte>>
               \/ /\ pc' = "finalize"                  \* urlopen / read raises IOError
                  /\ UNCHANGED <<fs, first_byte>>
       ELSE /\ pc' = "finalize"
            /\ UNCHANGED <<fs, first_byte, net>>
    /\ UNCHANGED <<filepath, has_gdown, remote, outdir, op, req, result,
                   file_size, start, prev, ranOK, unpacked>>

\* the finally block without shutil.move: a verified staging file stays staged
FinalizeOutcomeNoMove ==
    IF ~fs.part.exists
    THEN [fs |-> fs, res |-> Raise("FileNotFoundError", 123)]
    ELSE IF file_size = Len(fs.part.data)
    THEN LET c == IF Truthy(req.hash_val)
                  THEN check_hash(fs.part, req.hash_val, req.hash_type)
                  ELSE "True"
         IN  IF c # "True"
             THEN [fs |-> fs, res |-> HashOutcome(c, 125)]
             ELSE [fs |-> fs, res |-> FinalCheck(fs, req.hash_val, req.hash_type)]
    ELSE IF file_size = -1
    THEN [fs |-> fs, res |-> Raise("ContentLengthUnavailable", 128)]
    ELSE [fs |-> fs, res |-> FinalCheck(fs, req.hash_val, req.hash_type)]

\* lines 122-128, then line 142: [fs, res] at the end of the range branch
FinalizeOutcome ==
    IF ~fs.part.exists
    THEN [fs |-> fs, res |-> Raise("FileNotFoundError", 123)]
    ELSE IF file_size = Len(fs.part.data)
    THEN LET c == IF Truthy(req.hash_val)
                  THEN check_hash(fs.part, req.hash_val, req.hash_type)
                  ELSE "True"
         IN  IF c # "True"
             THEN [fs |-> fs, res |-> HashOutcome(c, 125)]
             ELSE LET f == [fs EXCEPT !.dest = fs.part, !.part = NoFile]
                  IN  [fs |-> f, res |-> FinalCheck(f, req.hash_val, req.hash_type)]
    ELSE IF file_size = -1
    THEN [fs |-> fs, res |-> Raise("ContentLengthUnavailable", 128)]
    ELSE [fs |-> fs, res |-> FinalCheck(fs, req.hash_val, req.hash_type)]

Finalize ==
    /\ pc = "finalize"
    /\ fs' = FinalizeOutcome.fs
    /\ result' = FinalizeOutcome.res
    /\ pc' = AfterDownload(op, FinalizeOutcome.res)
    /\ UNCHANGED <<filepath, has_gdown, remote, outdir, op, req,
                   first_byte, file_size, net, start, prev, ranOK, unpacked>>

\* the call returns or raises to its caller: its arguments and locals are gone
Return ==
    /\ pc = "done"
    /\ prev' = (IF op = "download_url" /\ result = Ok THEN req ELSE NoReq)
    /\ pc' = "idle"
    /\ op' = "none"
    /\ req' = NoReq
    /\ result' = NoResult
    /\ first_byte' = 0
    /\ file_size' = -1
    /\ net' = <<>>
    /\ start' = NoStart
    /\ ranOK' = FALSE
    /\ unpacked' = "none"
    /\ UNCHANGED <<filepath, has_gdown, remote, fs, outdir>>

----------------------------------------------------------------------------
(* extractall and download_and_extract *)

\* zipfile.ZipFile(filepath) / tarfile.open(filepath) accept the file
IsZip(data) == data # <<>> /\ Head(data) = MagicZip
IsTar(data) == data # <<>> /\ Head(data) = MagicTar

\* line 166: os.path.basename(filepath).split(".")[0], looked up under output_dir
target_file == SplitDot0(Basename(filepath))

\* extractall checking the hash before it looks for the extracted entry
ExtractOutcomeHashFirst(hash_val, hash_type) ==
    LET c == check_hash(fs.dest, hash_val, hash_type)
        skip(res) == [outdir |-> outdir, res |-> res, unpacked |-> "none"]
        done(how) == [outdir |-> outdir \cup Members(fs.dest.data), res |-> Ok,
                      unpacked |-> how]
    IN  IF c # "True" THEN skip(HashOutcome(c, 171))
        ELSE IF target_file \in outdir THEN skip(Ok)
        ELSE IF EndsWith(filepath, Suffix_zip)
        THEN IF ~fs.dest.exists THEN skip(Raise("FileNotFoundError", 176))
             ELSE IF ~IsZip(fs.dest.data) THEN skip(Raise("BadZipFile", 176))
             ELSE done("zip")
        ELSE IF EndsWith(filepath, Suffix_tar) \/ EndsWith(filepath, Suffix_targz)
        THEN IF ~fs.dest.exists THEN skip(Raise("FileNotFoundError", 180))
             ELSE IF ~IsTar(fs.dest.data) THEN skip(Raise("ReadError", 180))
             ELSE done("tar")
        ELSE skip(Raise("UnsupportedArchiveFormat", 184))

\* extractall choosing the decompressor before it checks the hash
ExtractOutcomeSuffixFirst(hash_val, hash_type) ==
    LET c == check_hash(fs.dest, hash_val, hash_type)
        skip(res) == [outdir |-> outdir, res |-> res, unpacked |-> "none"]
        done(how) == [outdir |-> outdir \cup Members(fs.dest.data), res |-> Ok,
                      unpacked |-> how]
        zip == EndsWith(filepath, Suffix_zip)
        tar == EndsWith(filepath, Suffix_tar) \/ EndsWith(filepath, Suffix_targz)
    IN  IF target_file \in outdir THEN skip(Ok)
        ELSE IF ~zip /\ ~tar THEN skip(Raise("UnsupportedArchiveFormat", 184))
        ELSE IF c # "True" THEN skip(HashOutcome(c, 171))
        ELSE IF zip
        THEN IF ~fs.dest.exists THEN skip(Raise("FileNotFoundError", 176))
             ELSE IF ~IsZip(fs.dest.data) THEN skip(Raise("BadZipFile", 176))
             ELSE done("zip")
        ELSE IF ~fs.dest.exists THEN skip(Raise("FileNotFoundError", 180))
             ELSE IF ~IsTar(fs.dest.data) THEN skip(Raise("ReadError", 180))
             ELSE done("tar")

\* lines 166-184: [outdir, res, unpacked] of one call of extractall
ExtractOutcome(hash_val, hash_type) ==
    LET c == check_hash(fs.dest, hash_val, hash_type)
        skip(res) == [outdir |-> outdir, res |-> res, unpacked |-> "none"]
        done(how) == [outdir |-> outdir \cup Members(fs.dest.data), res |-> Ok,
                      unpacked |-> how]
    IN  IF target_file \in outdir THEN skip(Ok)
        ELSE IF c # "True" THEN skip(HashOutcome(c, 171))
        ELSE IF EndsWith(filepath, Suffix_zip)
        THEN IF ~fs.dest.exists THEN skip(Raise("FileNotFoundError", 176))
             ELSE IF ~IsZip(fs.dest.data) THEN skip(Raise("BadZipFile", 176))
             ELSE done("zip")
        ELSE IF EndsWith(filepath, Suffix_tar) \/ EndsWith(filepath, Suffix_targz)
        THEN IF ~fs.dest.exists THEN skip(Raise("FileNotFoundError", 180))
             ELSE IF ~IsTar(fs.dest.data) THEN skip(Raise("ReadError", 180))
             ELSE done("tar")
        ELSE skip(Raise("UnsupportedArchiveFormat", 184))

extractall ==
    /\ pc = "idle"
    /\ \E hash_val \in HashVals(remote), hash_type \in HashTypes :
          LET o == ExtractOutcome(hash_val, hash_type)
          IN  /\ req' = [url |-> <<>>, hash_val |-> hash_val, hash_type |-> hash_type]
              /\ outdir' = o.outdir
              /\ result' = o.res
              /\ unpacked' = o.unpacked
    /\ op' = "extractall"
    /\ start' = [dest |-> fs.dest, part |-> fs.part, outdir |-> outdir]
    /\ pc' = "done"
    /\ UNCHANGED <<filepath, has_gdown, remote, fs, first_byte, file_size, net,
                   prev, ranOK>>

\* line 203
download_and_extract ==
    \E url \in Urls, hash_val \in HashVals(remote), hash_type \in HashTypes :
        Enter("download_and_extract", url, hash_val, hash_type)

\* line 204, reached when download_url returned
ExtractStep ==
    /\ pc = "extract"
    /\ LET o == ExtractOutcome(req.hash_val, req.hash_type)
       IN  /\ outdir' = o.outdir
           /\ result' = o.res
           /\ unpacked' = o.unpacked
    /\ pc' = "done"
    /\ UNCHANGED <<filepath, has_gdown, remote, fs, op, req, first_byte, file_size,
                   net, start, prev, ranOK>>

----------------------------------------------------------------------------
(* check_hash called on its own *)

\* every spelling of hash_type tried
AllHashTypes == HashTypes \cup {Str_md5}

\* every expected value tried against a file holding `data`
AllHashVals(data) ==
    HashVals(data) \cup {Some(Upper(HexDigest(Str_md5, data))),
                         Some(HexDigest(Str_md5, Stale))}

\* one file, present or not, and nothing else
InitHash ==
    /\ filepath \in {Path_zip, Path_txt}
    /\ has_gdown = FALSE
    /\ remote = <<>>
    /\ \E f \in {NoFile} \cup {File(Content(m, n)) : m \in Magics, n \in 0..MaxTotal} :
          fs = [dest |-> f, part |-> NoFile, dir |-> f.exists]
    /\ outdir = {}
    /\ prev = NoReq
    /\ Idle

\* check_hash(filepath, val, hash_type)
CallCheckHash ==
    /\ pc = "idle"
    /\ \E val \in AllHashVals(fs.dest.data), hash_type \in AllHashTypes :
          /\ req' = [url |-> <<>>, hash_val |-> val, hash_type |-> hash_type]
          /\ result' = [kind |-> check_hash(fs.dest, val, hash_type), line |-> 0]
    /\ op' = "check_hash"
    /\ pc' = "done"
    /\ UNCHANGED <<filepath, has_gdown, remote, fs, outdir, first_byte, file_size,
                   net, start, prev, ranOK, unpacked>>

----------------------------------------------------------------------------
(* Specifications *)

Next ==
    \/ download_url
    \/ ProbeSize
    \/ ChunkLoop
    \/ Finalize
    \/ Return

Spec == Init /\ [][Next]_vars

NextExtract ==
    \/ download_and_extract
    \/ extractall
    \/ ProbeSize
    \/ ChunkLoop
    \/ Finalize
    \/ ExtractStep
    \/ Return

SpecExtract == InitExtract /\ [][NextExtract]_vars

NextHash ==
    \/ CallCheckHash
    \/ Return

SpecHash == InitHash /\ [][NextHash]_vars

\* one resumable download retried by its caller: a non-empty remote file at an
\* url of the range branch, nothing downloaded yet, the directory there
InitResume ==
    /\ filepath = Path_tar
    /\ has_gdown \in BOOLEAN
    /\ remote \in {Content(m, n) : m \in Magics, n \in 1..MaxTotal}
    /\ fs = [dest |-> NoFile, part |-> NoFile, dir |-> TRUE]
    /\ outdir = {}
    /\ prev = NoReq
    /\ Idle

\* download_url(Url_msd, filepath, hash_val, hash_type) with the digest of the
\* remote file as hash_val, called again whenever the last call has ended
RetryFetch ==
    \E hash_type \in {Str_MD5, Str_sha1} :
        Enter("download_url", Url_msd,
              Some(HexDigest(Lower(hash_type), remote)), hash_type)

\* line 107 answered with the Content-Length header
ProbeAnswered == ProbeSize /\ file_size' = Len(remote)

\* lines 112-119 completed for one chunk
ChunkAppended == ChunkLoop /\ fs'.part # fs.part

NextResume ==
    \/ RetryFetch
    \/ ProbeSize
    \/ ChunkLoop
    \/ Finalize
    \/ Return

\* every call runs to its end and is followed by another; the network fails
\* again and again, but not for ever: the probe is answered and a chunk is
\* appended infinitely often if they are attempted infinitely often
SpecResume ==
    /\ InitResume
    /\ [][NextResume]_vars
    /\ WF_vars(NextResume)
    /\ SF_vars(ProbeAnswered)
    /\ SF_vars(ChunkAppended)

----------------------------------------------------------------------------
(* Properties *)

\* hash_type names md5 or sha1 in some spelling
Supported(hash_type) == Lower(hash_type) = Str_md5 \/ Lower(hash_type) = Str_sha1

IsRangeRequest(e) == e.kind = "range"

\* the Range requests of the call, in order
RangeReqs == SelectSeq(net, IsRangeRequest)

\* the call took, or is in, the range branch
RangeCall ==
    \/ pc \in {"probe", "loop", "finalize"}
    \/ pc \in {"done", "extract"} /\ net # <<>> /\ Head(net).kind = "probe"

\* length of the staging file when the call started
StartLen == IF start.part.exists THEN Len(start.part.data) ELSE 0

\* C1: a download_url call given an expected hash and a supported algorithm
\* returns only with a file at the destination path whose digest is that hash,
\* whichever branch produced the file.
C1_HashGate ==
    (/\ pc = "done"
     /\ op = "download_url"
     /\ result = Ok
     /\ req.hash_val.some
     /\ Supported(req.hash_type))
    => /\ fs.dest.exists
       /\ HexDigest(Lower(req.hash_type), fs.dest.data) = req.hash_val.str

C1_Witness ==
    /\ pc = "done"
    /\ op = "download_url"
    /\ result = Ok
    /\ req.hash_val.some
    /\ RangeReqs # <<>>
    /\ ~start.dest.exists

\* C2: a download_url call that repeats the previous call, which returned, with
\* an expected hash, finds the file, returns, and accesses the network not at
\* all: no probe, no range request, no urlretrieve, no provider call.
C2_Idempotent ==
    (ranOK /\ req.hash_val.some)
    => /\ pc = "done"
       /\ result = Ok
       /\ net = <<>>
       /\ start.dest.exists
       /\ fs = [dest |-> start.dest, part |-> start.part, dir |-> TRUE]

C2_Witness ==
    /\ ranOK
    /\ req.hash_val.some
    /\ pc = "done"
    /\ StartsWith(req.url, Prefix_msd)

\* C3: in a range fetch started with a staging file of k bytes, the first Range
\* request starts at byte k, each later one where the one before ended, none
\* reaches past the total, and when k < total the loop is left normally only
\* after requests up to the last byte.
C3_Resume ==
    /\ \A i \in 1..Len(RangeReqs) :
          /\ RangeReqs[i].first <= RangeReqs[i].last
          /\ RangeReqs[i].last < file_size
          /\ RangeReqs[i].first =
                (IF i = 1 THEN StartLen ELSE RangeReqs[i - 1].last + 1)
          /\ RangeReqs[i].first >= StartLen
    /\ (pc = "loop" /\ ~LoopGuard /\ StartLen < file_size)
       => /\ RangeReqs # <<>>
          /\ RangeReqs[Len(RangeReqs)].last = file_size - 1

C3_Witness ==
    /\ start.part.exists
    /\ StartLen > 0
    /\ Len(RangeReqs) >= 2
    /\ pc = "done"
    /\ result = Ok

\* the range fetch started with a staging file as long as the remote content
FullAtStart ==
    /\ RangeCall
    /\ start.part.exists
    /\ file_size = Len(start.part.data)

\* C4: a range fetch started with a staging file of exactly the total length
\* issues no Range request, and ends with the staging file renamed to the
\* destination path and the call returning when the file passes verification,
\* and with an exception otherwise.
C4_ResumeComplete ==
    FullAtStart
    => /\ RangeReqs = <<>>
       /\ pc = "done"
          => IF check_hash(start.part, req.hash_val, req.hash_type) = "True"
             THEN /\ result = Ok
                  /\ fs.dest = start.part
                  /\ ~fs.part.exists
             ELSE result # Ok

C4_Witness ==
    /\ FullAtStart
    /\ pc = "done"
    /\ req.hash_val.some
    /\ start.part.data # <<>>
    /\ result = Ok
    /\ fs.dest = start.part
    /\ ~fs.part.exists

\* C5 (as claimed): a range fetch whose loop ends with the staging file's
\* length different from a known total keeps the staging file and ends with an
\* exception, the destination file being missing, whatever the request.
C5_IncompleteFails ==
    (/\ pc = "done"
     /\ RangeCall
     /\ file_size # -1
     /\ fs.part.exists
     /\ Len(fs.part.data) # file_size)
    => /\ result # Ok
       /\ fs.part.exists
       /\ ~fs.dest.exists

\* C6 (as claimed): a range fetch that does not obtain the total length ends
\* with ContentLengthUnavailable, issues no Range request and leaves the staging
\* file as it was, whether or not one existed.
C6_NoLength ==
    (pc = "done" /\ RangeCall /\ file_size = -1)
    => /\ result.kind = "ContentLengthUnavailable"
       /\ RangeReqs = <<>>
       /\ fs.part = start.part

\* C7 (as claimed): at the end of a range fetch whose staging file has the total
\* length, with an expected hash given, a failing verification raises
\* HashMismatch and changes no file; only a passing one renames the staging file
\* to the destination path.
C7_FinalizeGated ==
    [][(/\ pc = "finalize"
        /\ fs.part.exists
        /\ file_size = Len(fs.part.data)
        /\ req.hash_val.some
        /\ Supported(req.hash_type))
       => IF check_hash(fs.part, req.hash_val, req.hash_type) = "True"
          THEN fs'.dest = fs.part /\ ~fs'.part.exists
          ELSE result'.kind = "HashMismatch" /\ fs' = fs]_vars

\* C8 (as claimed, for a call that carries an expected hash): a download_url
\* call naming an algorithm other than md5 and sha1 is rejected before the
\* network: it ends with an exception and has made no network access, whether
\* or not the destination file exists.
C8_RejectedBeforeNetwork ==
    (op = "download_url" /\ req.hash_val.some /\ ~Supported(req.hash_type))
    => /\ net = <<>>
       /\ pc = "done" => result.kind \in {"UnsupportedAlgorithm", "CapabilityUnavailable"}

\* C9: when an entry named as the archive's base name up to its first "."
\* exists under the output directory, extractall decompresses nothing, writes
\* nothing there and returns, whatever the archive file, the expected hash and
\* the suffix are.
C9_ExtractSkips ==
    (/\ pc = "done"
     /\ op \in {"extractall", "download_and_extract"}
     /\ SplitDot0(Basename(filepath)) \in start.outdir)
    => /\ unpacked = "none"
       /\ outdir = start.outdir
       /\ op = "extractall" => result = Ok
       /\ result.line \notin {171, 176, 180, 184}

C9_Witness ==
    /\ pc = "done"
    /\ op = "extractall"
    /\ SplitDot0(Basename(filepath)) \in start.outdir
    /\ filepath = Path_txt
    /\ ~fs.dest.exists
    /\ req.hash_val.some
    /\ Supported(req.hash_type)

\* the algorithm a supported spelling names
AlgOf(hash_type) == IF hash_type \in {Str_md5, Str_MD5} THEN Str_md5 ELSE Str_sha1

\* C10: for an existing file, a supported algorithm in either spelling and an
\* expected value that is present, check_hash returns True when the value is
\* the file's digest and False when it is not.
C10_Hasher ==
    (/\ pc = "done"
     /\ op = "check_hash"
     /\ fs.dest.exists
     /\ req.hash_val.some
     /\ req.hash_type \in {Str_md5, Str_MD5, Str_sha1})
    => result.kind =
          (IF req.hash_val.str = HexDigest(AlgOf(req.hash_type), fs.dest.data)
           THEN "True" ELSE "False")

C10_Witness ==
    /\ pc = "done"
    /\ op = "check_hash"
    /\ fs.dest.exists
    /\ fs.dest.data # <<>>
    /\ req.hash_type = Str_MD5
    /\ req.hash_val.some
    /\ result.kind = "True"

\* C11: check_hash given no expected value returns True whatever the file
\* holds, whether or not the file exists, and whatever algorithm is named.
C11_EscapeHatch ==
    (pc = "done" /\ op = "check_hash" /\ ~req.hash_val.some)
    => result.kind = "True"

C11_Witness ==
    /\ pc = "done"
    /\ op = "check_hash"
    /\ ~req.hash_val.some
    /\ ~fs.dest.exists
    /\ req.hash_type = Str_crc32
    /\ result.kind = "True"

\* C12: a download_url call for a Google Drive url with no file at the
\* destination path ends, when gdown is missing, with CapabilityUnavailable,
\* the provider not called and no file or directory touched; when gdown is
\* there, the provider is called exactly once and DownloadFailed is raised
\* exactly when no file is at the destination path afterwards.
C12_ExternalProvider ==
    [][(/\ pc = "idle"
        /\ op' = "download_url"
        /\ StartsWith(req'.url, Prefix_gdrive)
        /\ ~fs.dest.exists)
       => /\ pc' = "done"
          /\ IF ~has_gdown
             THEN /\ result' = Raise("CapabilityUnavailable", 93)
                  /\ net' = <<>>
                  /\ fs' = fs
             ELSE /\ net' = <<Provider>>
                  /\ (result' = Raise("DownloadFailed", 97)) <=> ~fs'.dest.exists]_vars

C12_Witness ==
    /\ pc = "done"
    /\ op = "download_url"
    /\ StartsWith(req.url, Prefix_gdrive)
    /\ has_gdown
    /\ net = <<Provider>>
    /\ ~fs.dest.exists
    /\ result = Raise("DownloadFailed", 97)

\* the lines of extractall that raise
ExtractLines == {171, 176, 180, 184}

\* C13: download_and_extract calls download_url and then extractall with the
\* same hash and algorithm; extractall starts only when download_url returned,
\* so nothing is unpacked while the download runs or after it raised; and
\* extractall, whether it fails or not, leaves the downloaded file as it was.
C13_NoRollback ==
    /\ [](pc = "extract" => (op = "download_and_extract" /\ result = Ok))
    /\ []((op = "download_and_extract"
             /\ \/ pc \in {"probe", "loop", "finalize", "extract"}
                \/ pc = "done" /\ result # Ok /\ result.line \notin ExtractLines)
          => (outdir = start.outdir /\ unpacked = "none"))
    /\ [][pc = "extract"
          => /\ fs' = fs
             /\ req' = req
             /\ pc' = "done"
             /\ target_file \notin outdir
                => ((result'.kind = "HashMismatch")
                      <=> (check_hash(fs.dest, req.hash_val, req.hash_type) = "False"))]_vars

C13_Witness ==
    /\ pc = "done"
    /\ op = "download_and_extract"
    /\ ~start.dest.exists
    /\ net # <<>>
    /\ result.line \in ExtractLines
    /\ fs.dest = File(remote)

\* the archive holds a member called `name`
HasMember(data, name) ==
    \E i \in 2..Len(data) : (IF data[i] = 3 THEN Name_data ELSE Name_readme) = name

\* download_and_extract("https://example.org/data.zip", "d/data.zip", output_dir,
\* hash_val = the SHA1 of the remote file, hash_type = "sha1") with no file at
\* "d/data.zip" has returned
E2EReturned ==
    /\ pc = "done"
    /\ op = "download_and_extract"
    /\ result = Ok
    /\ req.url = Url_other
    /\ filepath = Path_zip
    /\ ~start.dest.exists
    /\ req.hash_type = Str_sha1
    /\ req.hash_val = Some(HexDigest(Str_sha1, remote))

\* C14 as stated: after that call returns, output_dir/data exists, whatever
\* the archive holds.
C14_DataAlwaysThere == E2EReturned => Name_data \in outdir

\* C14: after that call returns, the file at "d/data.zip" is the remote
\* archive, and output_dir/data exists exactly when it existed before the call
\* or the archive holds a member called data; when it did not exist before,
\* the archive was unpacked as a zip file and every member of it is there.
C14_EndToEnd ==
    E2EReturned
    => /\ fs.dest = File(remote)
       /\ (Name_data \in outdir)
            <=> (Name_data \in start.outdir \/ HasMember(remote, Name_data))
       /\ Name_data \notin start.outdir
            => /\ unpacked = "zip"
               /\ \A n \in {Name_data, Name_readme} :
                     HasMember(remote, n) => n \in outdir

C14_Witness ==
    /\ E2EReturned
    /\ start.outdir = {}
    /\ HasMember(remote, Name_data)
    /\ Name_data \in outdir

\* `a` is the beginning of `b`
IsPrefix(a, b) == Len(a) <= Len(b) /\ SubSeq(b, 1, Len(a)) = a

\* C15: over any sequence of download_url calls that take the range branch the
\* staging file is never longer than the remote file, and until it is renamed
\* to the destination path a step can only append to it: its length never
\* decreases and the bytes it held stay as they were.
C15_Checkpoint ==
    /\ [](fs.part.exists => Len(fs.part.data) <= Len(remote))
    /\ [][fs.part.exists
          => IF fs'.part.exists
             THEN IsPrefix(fs.part.data, fs'.part.data)
             ELSE fs'.dest = fs.part]_vars

C15_Witness ==
    /\ pc = "loop"
    /\ start.part.exists
    /\ StartLen > 0
    /\ Len(fs.part.data) > StartLen
    /\ Len(fs.part.data) = Len(remote)

\* C16: a download_url call that finds a file at the destination path failing
\* the expected hash raises HashMismatch at once, whatever the url: nothing is
\* requested from the network or the provider, and the destination file and
\* the staging file are left as they were.
C16_ExistingBadHash ==
    (/\ op = "download_url"
     /\ start.dest.exists
     /\ check_hash(start.dest, req.hash_val, req.hash_type) = "False")
    => /\ pc = "done"
       /\ result = Raise("HashMismatch", 85)
       /\ net = <<>>
       /\ fs.dest = start.dest
       /\ fs.part = start.part

C16_Witness ==
    /\ op = "download_url"
    /\ req.url = Url_msd
    /\ start.dest.exists
    /\ start.part.exists
    /\ check_hash(start.dest, req.hash_val, req.hash_type) = "False"
    /\ result = Raise("HashMismatch", 85)

\* C17: when the extracted entry is not there already, extractall checks the
\* hash before it opens the archive: a failed check raises HashMismatch with
\* nothing unpacked, also for a file name no decompressor is chosen for.
C17_HashGated ==
    (/\ pc = "done"
     /\ op = "extractall"
     /\ target_file \notin start.outdir
     /\ check_hash(fs.dest, req.hash_val, req.hash_type) = "False")
    => /\ result = Raise("HashMismatch", 171)
       /\ outdir = start.outdir
       /\ unpacked = "none"

C17_Witness ==
    /\ pc = "done"
    /\ op = "extractall"
    /\ filepath = Path_txt
    /\ fs.dest.exists
    /\ target_file \notin start.outdir
    /\ check_hash(fs.dest, req.hash_val, req.hash_type) = "False"
    /\ result = Raise("HashMismatch", 171)

\* the file extensions the documentation of extractall lists
Ext_zip == <<".", "z", "i", "p">>
Ext_tar == <<".", "t", "a", "r">>
Ext_targz == <<".", "t", "a", "r", ".", "g", "z">>

\* C18 as stated: once the presence check and the hash check are passed, the
\* zip decompressor is used exactly for names ending in ".zip", the tar
\* decompressor exactly for names ending in ".tar" or ".tar.gz", and every
\* other name, also one that ends in the letters zip or tar with no dot,
\* raises UnsupportedArchiveFormat with nothing unpacked.
C18_DispatchBySuffix ==
    (/\ pc = "done"
     /\ op = "extractall"
     /\ fs.dest.exists
     /\ target_file \notin start.outdir
     /\ check_hash(fs.dest, req.hash_val, req.hash_type) = "True")
    => IF EndsWith(filepath, Ext_zip)
       THEN unpacked = "zip" \/ result = Raise("BadZipFile", 176)
       ELSE IF EndsWith(filepath, Ext_tar) \/ EndsWith(filepath, Ext_targz)
       THEN unpacked = "tar" \/ result = Raise("ReadError", 180)
       ELSE /\ result = Raise("UnsupportedArchiveFormat", 184)
            /\ unpacked = "none"
            /\ outdir = start.outdir

\* C19: a download from an url of the range branch, of a fixed remote file
\* whose digest is the expected hash, that is called again after every
\* interrupted attempt and keeps getting chunks through, ends: some call
\* returns with the remote file at the destination path and no staging file.
C19_EventuallyComplete ==
    <>(/\ pc = "done"
       /\ op = "download_url"
       /\ result = Ok
       /\ fs.dest = File(remote)
       /\ ~fs.part.exists)

C19_Witness ==
    /\ pc = "done"
    /\ op = "download_url"
    /\ result = Ok
    /\ RangeCall
    /\ start.part.exists
    /\ 0 < StartLen
    /\ StartLen < Len(remote)
    /\ fs.dest = File(remote)
    /\ ~fs.part.exists

\* C20 as stated: nothing heals a mismatch. A call that raised HashMismatch
\* after urlretrieve or gdown wrote the file leaves that file, failing the
\* hash, at the destination path; a call that finds such a file there raises
\* HashMismatch with nothing requested and the file as it was; and a call that
\* finds a staging file of the remote length failing the hash raises
\* HashMismatch and leaves the staging file as it was.
C20_NoSelfHealing ==
    /\ (/\ pc = "done"
        /\ op = "download_url"
        /\ result = Raise("HashMismatch", 143)
        /\ net \in {<<Retrieve>>, <<Provider>>})
       => /\ fs.dest.exists
          /\ check_hash(fs.dest, req.hash_val, req.hash_type) = "False"
    /\ (/\ op = "download_url"
        /\ start.dest.exists
        /\ check_hash(start.dest, req.hash_val, req.hash_type) = "False")
       => /\ pc = "done"
          /\ result.kind = "HashMismatch"
          /\ net = <<>>
          /\ fs.dest = start.dest
    /\ (/\ pc = "done"
        /\ op = "download_url"
        /\ FullAtStart
        /\ check_hash(start.part, req.hash_val, req.hash_type) = "False")
       => /\ result.kind = "HashMismatch"
          /\ fs.part = start.part
          /\ ~fs.dest.exists

====
